---- MODULE Spec2Model ----
(***************************************************************************)
(* Model of tf2autobot's peripheral helpers:                               *)
(*   - getDiff   (src/lib/extend/offer/getDiff.ts, lines 8-36)             *)
(*   - Bans      (src/lib/extend/offer/getDiff.ts, lines 90-406)           *)
(*   - PricesTfSocketManager                                               *)
(*               (src/lib/pricer/pricestf/prices-tf-socket-manager.ts)     *)
(* Each component has its own specification (SpecDiff, SpecBans,           *)
(* SpecSteamRep, SpecSocket); the variables of the other components stay   *)
(* at their initial value.                                                 *)
(***************************************************************************)
EXTENDS Integers, Sequences, FiniteSets, TLC

VARIABLES
    dict,        \* offer.data('dict'): the side-dictionary annotation, or absent
    diffPc,      \* position of the getDiff caller: "ready" | "done"
    diffResult,  \* value returned by getDiff
    opt,         \* bot.options: checkMptfBanned, mptfApiKey, bptfApiKey
    cached,      \* the five cached flags of the Bans instance
    cachedBefore,\* history: the cached flags when the current isBanned() began
    phase,       \* isBanned(): "none" | "primary" | "fallback" | "resolved" | "rejected"
    primary,     \* resultsFromAutobot(): "none" | "pending" | "ok" | "failed"
    response,    \* data of the successful rep.autobot.tf response
    returned,    \* the value isBanned() resolved with
    invoked,     \* how often each fallback method was invoked in this call
    promise,     \* the promises handed to Promise.all, by fallback method
    retry,       \* the promise of isListedUntrusted('retry')
    inflight,    \* HTTP requests that have not been answered yet
    ulog,        \* history: outcomes of the untrusted-list requests of this call
    srData,      \* isSteamRepMarked alone: the answer to its request
    srCached,    \* isSteamRepMarked alone: the cached flags when the answer arrives
    srPc,        \* isSteamRepMarked alone: "pending" | "done"
    srOut,       \* isSteamRepMarked alone: what the handler did
    ws,          \* socket manager: this.ws, 0 for undefined, else a connection
    conns,       \* the ReconnectingWebSocket objects created so far
    events,      \* the socket error events delivered so far, with what each did
    callerThrew, \* history: a call from outside threw a TypeError
    streak,      \* history: number of consecutive shutDown() calls, up to 2
    quiet        \* history: a non-401 error event since the last connect()/init()

diffVars == <<dict, diffPc, diffResult>>

bansVars == <<opt, cached, cachedBefore, phase, primary, response, returned,
              invoked, promise, retry, inflight, ulog>>

srVars == <<srData, srCached, srPc, srOut>>

\* the variables the actions of one component leave alone
sockVars == <<ws, conns, events, callerThrew, streak, quiet>>

notDiffVars == <<bansVars, srVars, sockVars>>

notBansVars == <<diffVars, srVars, sockVars>>

notSrVars == <<diffVars, bansVars, sockVars>>

notSockVars == <<diffVars, bansVars, srVars>>

vars == <<diffVars, bansVars, srVars, sockVars>>

-----------------------------------------------------------------------------
(* Bounds *)

\* number of distinct item-type identifiers (skus) an offer may mention
NumSkus == 2
\* largest quantity of one sku on one side of an offer
MaxQty == 2

\* init() calls that create a connection
MaxConns == 2

\* socket error events delivered
MaxEvents == 2

-----------------------------------------------------------------------------
(* JavaScript objects *)

Skus == 1..NumSkus

\* an object with no properties ({}), as a function with empty domain
EmptyObj == [s \in {} |-> 0]

\* all plain objects whose own properties are skus with a quantity
SideObjects == UNION {[D -> 1..MaxQty] : D \in SUBSET Skus}

\* obj[key] = value
Put(obj, key, value) ==
    [k \in (DOMAIN obj) \cup {key} |-> IF k = key THEN value ELSE obj[k]]

\* (obj[key] || 0) for an object created by an object literal
GetOrZero(obj, key) ==
    IF key \in DOMAIN obj /\ obj[key] # 0 THEN obj[key] ELSE 0

-----------------------------------------------------------------------------
(* getDiff *)

\* A side of the dictionary: its own properties and the enumerable properties
\* it inherits through its prototype chain (both are visited by for-in).
Sides == [own : SideObjects, inherited : SUBSET Skus]

NoDict == [present |-> FALSE]

Dicts == {NoDict} \cup [present : {TRUE}, our : Sides, their : Sides]

\* the keys a `for (const sku in side)` loop visits
ForInKeys(side) == (DOMAIN side.own) \cup side.inherited

\* mutant of HasOwnProperty: the guard of the loops is dropped
HasOwnPropertyAlways(side, sku) == TRUE

\* Object.prototype.hasOwnProperty.call(side, sku)
HasOwnProperty(side, sku) == sku \in DOMAIN side.own

\* value read for side[sku]: an inherited property reads as quantity 1
ReadSide(side, sku) == IF sku \in DOMAIN side.own THEN side.own[sku] ELSE 1

\* one pass of getDiff over the keys of a side: sign = -1 for dict.our (line 24),
\* sign = +1 for dict.their (line 32)
RECURSIVE DiffLoop(_, _, _, _)
DiffLoop(diff, side, todo, sign) ==
    IF todo = {} THEN diff
    ELSE LET sku == CHOOSE s \in todo : TRUE
             next == IF ~HasOwnProperty(side, sku)
                     THEN diff
                     ELSE Put(diff, sku, GetOrZero(diff, sku) + sign * ReadSide(side, sku))
         IN  DiffLoop(next, side, todo \ {sku}, sign)

NullResult == [isNull |-> TRUE, map |-> EmptyObj]

\* mutant of getDiff: an absent annotation yields an empty mapping
getDiffNeverNull(d) ==
    IF ~d.present THEN [isNull |-> FALSE, map |-> EmptyObj]
    ELSE [isNull |-> FALSE,
          map |-> DiffLoop(DiffLoop(EmptyObj, d.our, ForInKeys(d.our), -1),
                           d.their, ForInKeys(d.their), 1)]

getDiff(d) ==
    IF ~d.present THEN NullResult
    ELSE LET afterOur == DiffLoop(EmptyObj, d.our, ForInKeys(d.our), -1)
             afterTheir == DiffLoop(afterOur, d.their, ForInKeys(d.their), 1)
         IN  [isNull |-> FALSE, map |-> afterTheir]

InitDiffVars ==
    /\ dict \in Dicts
    /\ diffPc = "ready"
    /\ diffResult = NullResult

\* the trade-offer manager calls offer.getDiff()
GetDiffCall ==
    /\ diffPc = "ready"
    /\ diffResult' = getDiff(dict)
    /\ diffPc' = "done"
    /\ UNCHANGED dict
    /\ UNCHANGED notDiffVars

-----------------------------------------------------------------------------
(* Bans: values *)

\* JavaScript booleans and absent values are the strings "true", "false",
\* "null" and "undefined"; only "true" is truthy among them.
Truthy(v) == v = "true"

ToJs(b) == IF b THEN "true" ELSE "false"

\* a ?? b
Coalesce(a, b) == IF a \in {"null", "undefined"} THEN b ELSE a

\* a Contents object without entries
EmptyContents == [s \in {} |-> ""]

\* bot.options as far as Bans reads them
Options == [checkMptfBanned : BOOLEAN, mptfApiKey : {"", "key"}, bptfApiKey : {"", "key"}]

\* the fallback methods, in the order of the Promise.all array (lines 186-189)
Checks == {"untrusted", "mptf", "steamrep", "bptf"}

\* SiteResult | undefined
Undefined == [def |-> FALSE, isBanned |-> "undefined", content |-> "undefined"]

SiteResult(isBanned, content) == [def |-> TRUE, isBanned |-> isBanned, content |-> content]

\* a promise: "none" (never created), "pending", "resolved" or "rejected"
NoPromise == [state |-> "none", value |-> Undefined]

Pending == [state |-> "pending", value |-> Undefined]

Resolved(v) == [state |-> "resolved", value |-> v]

Rejected == [state |-> "rejected", value |-> Undefined]

\* the private fields of lines 91-99
NoCache == [isBptfBanned |-> "null", isBptfSteamRepBanned |-> "null",
            isSteamRepBanned |-> "null", isCommunityBanned |-> "null",
            isMptfBanned |-> "null"]

\* IsBanned: { isBanned, contents? }
IsBanned(isBanned, hasContents, contents) ==
    [isBanned |-> isBanned, hasContents |-> hasContents, contents |-> contents]

NoReturn == IsBanned("undefined", FALSE, EmptyContents)

-----------------------------------------------------------------------------
(* Bans.isBanned: the primary call (lines 121-137) *)

Sites == {"TF2Autobot", "Marketplace.tf", "Backpack.tf", "Steamrep.com"}

\* RepAutobotTfContents[site]: the sentinel 'Error', null, or a SiteResult
ErrorEntry == [kind |-> "Error", isBanned |-> "undefined", content |-> "undefined"]

NullEntry == [kind |-> "null", isBanned |-> "undefined", content |-> "undefined"]

SiteEntries ==
    {ErrorEntry, NullEntry,
     [kind |-> "result", isBanned |-> "true", content |-> "reason"],
     [kind |-> "result", isBanned |-> "false", content |-> ""]}

\* RepAutobotTf as far as isBanned reads it
Responses == [isBanned : BOOLEAN, isBannedExcludeMptf : BOOLEAN, contents : [Sites -> SiteEntries]]

NoResponse == [isBanned |-> FALSE, isBannedExcludeMptf |-> FALSE,
               contents |-> [s \in Sites |-> ErrorEntry]]

\* line 123
SelectIsBanned(o, res) ==
    IF o.checkMptfBanned THEN res.isBanned ELSE res.isBannedExcludeMptf

\* mutant of KeepSite: every entry that is not the sentinel is kept
KeepSiteNotError(entry) == entry.kind = "result"

\* (entry as SiteResult)?.isBanned: undefined for null and for the sentinel
OptionalIsBanned(entry) == IF entry.kind = "result" THEN entry.isBanned ELSE "undefined"

\* the condition of the reduce callback, lines 125-128
KeepSite(entry) ==
    /\ entry.kind # "Error"
    /\ Truthy(OptionalIsBanned(entry))

\* lines 124-132
PrimaryContents(res) ==
    LET kept == {site \in Sites : KeepSite(res.contents[site])}
    IN  [site \in kept |-> res.contents[site].content]

\* lines 123-137
PrimaryResult(o, res) ==
    IsBanned(ToJs(SelectIsBanned(o, res)), TRUE, PrimaryContents(res))

-----------------------------------------------------------------------------
(* Bans.isBanned: the fallback (lines 138-211) *)

\* line 140-145
DenyByDefault ==
    IsBanned("true", TRUE,
             [s \in {"default-rule"} |->
                 "all offline and online ban checks failed. internet issues?"])

\* `banned${content !== '' ? ` - ${content}` : ''}` or 'clean'
SiteText(r) ==
    IF Truthy(r.isBanned)
    THEN (IF r.content # "" THEN "banned - " \o r.content ELSE "banned")
    ELSE "clean"

\* mutant of finalize: without any result the subject is reported clean
finalizeAllowByDefault(o, results) == IsBanned("false", FALSE, EmptyContents)

\* finalize, lines 146-182; results maps each fallback method to what its
\* promise resolved with
finalize(o, results) ==
    LET validResults == {c \in Checks : results[c].def}
        keys == {k \in {"Backpack.tf", "Marketplace.tf", "TF2Autobot", "Steamrep.com:"} :
                    \/ k = "Backpack.tf" /\ results["bptf"].def
                    \/ k = "Marketplace.tf" /\ o.checkMptfBanned /\ results["mptf"].def
                    \/ k = "TF2Autobot" /\ results["untrusted"].def
                    \/ k = "Steamrep.com:" /\ results["steamrep"].def}
        of(k) == CASE k = "Backpack.tf" -> "bptf"
                   [] k = "Marketplace.tf" -> "mptf"
                   [] k = "TF2Autobot" -> "untrusted"
                   [] k = "Steamrep.com:" -> "steamrep"
    IN  IF validResults # {}
        THEN IsBanned(ToJs(\E c \in validResults : Truthy(results[c].isBanned)), TRUE,
                      [k \in keys |-> SiteText(results[of(k)])])
        ELSE DenyByDefault

\* the test of the catch handler, lines 197-205: TRUE when some cached flag is truthy
CacheSaysBanned(o, c) ==
    \/ Truthy(c.isBptfBanned)
    \/ Truthy(c.isBptfSteamRepBanned)
    \/ Truthy(c.isSteamRepBanned)
    \/ Truthy(c.isCommunityBanned)
    \/ (o.checkMptfBanned /\ Truthy(c.isMptfBanned))

\* mutant of FallbackChecks: the per-site checks run after every primary call
FallbackChecksAlways(outcome) == Checks

\* the methods isBanned invokes once the primary call has settled: the catch
\* block of line 138 is entered only when the awaited promise rejects
FallbackChecks(outcome) == IF outcome = "failed" THEN Checks ELSE {}

\* isMptfBanned up to its request, lines 321-340
isMptfBannedStart(o) ==
    IF ~o.checkMptfBanned THEN Resolved(Undefined)
    ELSE IF o.mptfApiKey = "" THEN Rejected
    ELSE Pending

\* isBptfBanned up to its request, lines 249-253: without key it returns
\* undefined, which Promise.all takes as a fulfilled value
isBptfBannedStart(o) ==
    IF o.bptfApiKey = "" THEN Resolved(Undefined) ELSE Pending

\* the promises of lines 186-189 right after the four calls
StartedPromises(o) ==
    [c \in Checks |->
        CASE c = "untrusted" -> Pending
          [] c = "mptf" -> isMptfBannedStart(o)
          [] c = "steamrep" -> Pending
          [] c = "bptf" -> isBptfBannedStart(o)]

\* mutant of AllSettled: the catch handler never rethrows
AllSettledNeverThrows(o, ps, c) ==
    IF \E k \in Checks : ps[k].state = "rejected"
    THEN [phase |-> "resolved", returned |-> IsBanned("false", FALSE, EmptyContents)]
    ELSE IF \A k \in Checks : ps[k].state = "resolved"
    THEN [phase |-> "resolved", returned |-> finalize(o, [k \in Checks |-> ps[k].value])]
    ELSE [phase |-> "fallback", returned |-> NoReturn]

\* Promise.all(...).then(...).catch(...), lines 185-211, for the promises ps and
\* the cached flags c: how the isBanned() call stands after the pending
\* promise reactions have run
AllSettled(o, ps, c) ==
    IF \E k \in Checks : ps[k].state = "rejected"
    THEN IF ~CacheSaysBanned(o, c)
         THEN [phase |-> "resolved", returned |-> IsBanned("false", FALSE, EmptyContents)]
         ELSE [phase |-> "rejected", returned |-> NoReturn]
    ELSE IF \A k \in Checks : ps[k].state = "resolved"
    THEN [phase |-> "resolved", returned |-> finalize(o, [k \in Checks |-> ps[k].value])]
    ELSE [phase |-> "fallback", returned |-> NoReturn]

-----------------------------------------------------------------------------
(* Bans: the handlers of the four per-site requests *)

\* what a handler does: the value it resolves its promise with (resolves =
\* FALSE when it leaves the promise pending), and the cached flags afterwards
Handled(resolves, value, c) == [resolves |-> resolves, value |-> value, cached |-> c]

\* --- isListedUntrusted, lines 372-405 ---
\* outcome of the GET: "listed" / "clean" (a response with or without the
\* steamID); the 60 s signal aborts the request and the rejection value is an
\* AbortSignal ("abort") or some other error object ("canceled"); "error" is
\* any other rejection, or a response that makes the then-callback throw
UntrustedOutcomes == {"listed", "clean", "abort", "canceled", "error"}

\* the request was aborted by the signal of line 377
Aborted(outcome) == outcome \in {"abort", "canceled"}

\* line 393: TRUE when the catch callback starts the retry and returns
RetriesUntrusted(attempt, outcome) ==
    LET errInstanceofAbortSignal == outcome = "abort"
    IN  errInstanceofAbortSignal /\ attempt # "retry"

isListedUntrustedHandler(attempt, outcome, c) ==
    CASE outcome = "listed" ->
            Handled(TRUE, SiteResult("true", "Reason: r - Source: s"),
                    [c EXCEPT !.isCommunityBanned = "true"])
      [] outcome = "clean" -> Handled(TRUE, SiteResult("false", "undefined"), c)
      [] OTHER ->
            IF RetriesUntrusted(attempt, outcome)
            THEN Handled(FALSE, Undefined, c)
            ELSE Handled(TRUE, Undefined, c)

\* --- isMptfBanned, lines 341-368 ---
\* "error": the POST fails; "invalid": results is not an array; "nomatch": no
\* entry for the steamID; "match": an entry with banned and ban?.type
MptfResponses ==
    {[kind |-> "error", banned |-> "undefined", banType |-> "undefined"],
     [kind |-> "invalid", banned |-> "undefined", banType |-> "undefined"],
     [kind |-> "nomatch", banned |-> "undefined", banType |-> "undefined"],
     [kind |-> "match", banned |-> "true", banType |-> "scam"],
     [kind |-> "match", banned |-> "false", banType |-> "undefined"],
     [kind |-> "match", banned |-> "undefined", banType |-> "undefined"]}

isMptfBannedHandler(data, c) ==
    CASE data.kind = "match" ->
            Handled(TRUE,
                    SiteResult(Coalesce(data.banned, "false"), Coalesce(data.banType, "")),
                    [c EXCEPT !.isMptfBanned = Coalesce(data.banned, "false")])
      [] data.kind = "nomatch" -> Handled(TRUE, SiteResult("false", "undefined"), c)
      [] OTHER -> Handled(TRUE, Undefined, c)

\* --- isSteamRepMarked, lines 296-316 ---
Scammer == <<"s", "c", "a", "m", "m", "e", "r">>

\* String.prototype.toLowerCase on the letters the summaries use
LowerChar(ch) ==
    CASE ch = "S" -> "s" [] ch = "C" -> "c" [] ch = "A" -> "a"
      [] ch = "M" -> "m" [] ch = "E" -> "e" [] ch = "R" -> "r"
      [] OTHER -> ch

toLowerCase(str) == [i \in 1..Len(str) |-> LowerChar(str[i])]

\* String.prototype.indexOf: the first 0-based position of needle, or -1
indexOf(str, needle) ==
    LET n == Len(needle)
        at == {i \in 1..(Len(str) - n + 1) : SubSeq(str, i, i + n - 1) = needle}
    IN  IF at = {} THEN -1 ELSE (CHOOSE i \in at : \A j \in at : i <= j) - 1

Summaries ==
    {<<"S", "C", "A", "M", "M", "E", "R">>,
     <<"n", "o", "n", "e">>,
     <<"x", " ", "S", "c", "a", "m", "m", "e", "r">>,
     <<"s", "c", "a", "m", "m", "e">>}

NoSummary == <<>>

\* "error": the GET fails; "ok": steamrep.reputation is absent (hasReputation
\* FALSE) or has a summary (absent when hasSummary is FALSE) and maybe a full text
SteamRepResponses ==
    {[kind |-> "error", hasReputation |-> FALSE, hasSummary |-> FALSE,
      summary |-> NoSummary, full |-> "undefined"]}
    \cup [kind : {"ok"}, hasReputation : {FALSE}, hasSummary : {FALSE},
          summary : {NoSummary}, full : {"undefined"}]
    \cup [kind : {"ok"}, hasReputation : {TRUE}, hasSummary : {FALSE},
          summary : {NoSummary}, full : {"undefined"}]
    \cup [kind : {"ok"}, hasReputation : {TRUE}, hasSummary : {TRUE},
          summary : Summaries, full : {"full"}]

\* lines 297-299: reputation?.summary.toLowerCase().indexOf('scammer') !== -1;
\* without reputation the chain is undefined, and undefined !== -1
SummarySaysScammer(data) ==
    IF ~data.hasReputation THEN TRUE
    ELSE indexOf(toLowerCase(data.summary), Scammer) # -1

\* the then-callback throws when reputation has no summary
SteamRepThenThrows(data) == data.hasReputation /\ ~data.hasSummary

\* mutant of isSteamRepMarkedHandler: a failure always resolves undefined
isSteamRepMarkedHandlerNoFallback(data, c) ==
    IF data.kind = "ok" /\ ~SteamRepThenThrows(data)
    THEN Handled(TRUE, SiteResult(ToJs(SummarySaysScammer(data)), ""),
                 [c EXCEPT !.isSteamRepBanned = ToJs(SummarySaysScammer(data))])
    ELSE Handled(TRUE, Undefined, c)

isSteamRepMarkedHandler(data, c) ==
    IF data.kind = "ok" /\ ~SteamRepThenThrows(data)
    THEN LET isSteamRepBanned == ToJs(SummarySaysScammer(data))
             fullRepInfo == IF data.hasReputation THEN Coalesce(data.full, "") ELSE ""
         IN  Handled(TRUE, SiteResult(isSteamRepBanned, fullRepInfo),
                     [c EXCEPT !.isSteamRepBanned = isSteamRepBanned])
    ELSE IF c.isBptfSteamRepBanned # "null"
         THEN Handled(TRUE, SiteResult(c.isBptfSteamRepBanned, "undefined"), c)
         ELSE Handled(TRUE, Undefined, c)

\* --- isBptfBanned, lines 264-284 ---
\* "error": the GET fails; "ok": users[steamID] is absent (hasUser FALSE), or a
\* user without bans (hasBans FALSE), or with bans: the reasons of bans.all and
\* bans['all features'] ("undefined" when absent) and steamrep_scammer === 1
BptfResponses ==
    {[kind |-> "error", hasUser |-> FALSE, hasBans |-> FALSE, all |-> "undefined",
      allFeatures |-> "undefined", scammer |-> FALSE],
     [kind |-> "ok", hasUser |-> FALSE, hasBans |-> FALSE, all |-> "undefined",
      allFeatures |-> "undefined", scammer |-> FALSE],
     [kind |-> "ok", hasUser |-> TRUE, hasBans |-> FALSE, all |-> "undefined",
      allFeatures |-> "undefined", scammer |-> FALSE]}
    \cup [kind : {"ok"}, hasUser : {TRUE}, hasBans : {TRUE}, all : {"undefined", "scam"},
          allFeatures : {"undefined", "abuse"}, scammer : BOOLEAN]

isBptfBannedHandler(data, c) ==
    IF data.kind = "ok" /\ data.hasUser
    THEN LET isBptfBanned ==
                 IF ~data.hasBans THEN "undefined"
                 ELSE ToJs(data.all # "undefined" \/ data.allFeatures # "undefined")
             banReason ==
                 IF data.hasBans THEN Coalesce(data.all, Coalesce(data.allFeatures, "")) ELSE ""
         IN  Handled(TRUE, SiteResult(isBptfBanned, banReason),
                     [c EXCEPT !.isBptfBanned = isBptfBanned,
                               !.isBptfSteamRepBanned =
                                   IF data.hasBans THEN ToJs(data.scammer) ELSE "false"])
    ELSE Handled(TRUE, Undefined, c)

-----------------------------------------------------------------------------
(* Bans: actions *)

InitBansVars ==
    /\ cached = NoCache
    /\ cachedBefore = NoCache
    /\ phase = "none"
    /\ primary = "none"
    /\ response = NoResponse
    /\ returned = NoReturn
    /\ invoked = [c \in Checks |-> 0]
    /\ promise = [c \in Checks |-> NoPromise]
    /\ retry = NoPromise
    /\ inflight = {}
    /\ ulog = <<>>

\* the promise reactions that run once a handler has returned: Promise.all
\* settles when its last promise resolves
Settle(ps, c) ==
    IF phase = "fallback"
    THEN LET s == AllSettled(opt, ps, c)
         IN  phase' = s.phase /\ returned' = s.returned
    ELSE UNCHANGED <<phase, returned>>

\* a caller invokes isBanned() on the instance (line 120): the request of
\* resultsFromAutobot goes out. A new call is made once nothing of the
\* previous one is in flight.
IsBannedCall ==
    /\ inflight = {}
    /\ cachedBefore' = cached
    /\ phase' = "primary"
    /\ primary' = "pending"
    /\ inflight' = {"primary"}
    /\ response' = NoResponse
    /\ returned' = NoReturn
    /\ invoked' = [c \in Checks |-> 0]
    /\ promise' = [c \in Checks |-> NoPromise]
    /\ retry' = NoPromise
    /\ ulog' = <<>>
    /\ UNCHANGED <<opt, cached>>
    /\ UNCHANGED notBansVars

\* the awaited primary call settles (line 122): either the try block runs to
\* its return, or the catch block invokes the four checks and Promise.all
AfterPrimary(outcome, res) ==
    /\ "primary" \in inflight
    /\ primary' = outcome
    /\ response' = res
    /\ LET todo == FallbackChecks(outcome)
           started == [c \in Checks |->
                          IF c \in todo THEN StartedPromises(opt)[c] ELSE NoPromise]
           s == AllSettled(opt, started, cached)
       IN  IF todo = {}
           THEN /\ phase' = "resolved"
                /\ returned' = PrimaryResult(opt, res)
                /\ inflight' = {}
                /\ UNCHANGED <<invoked, promise>>
           ELSE /\ invoked' = [c \in Checks |-> IF c \in todo THEN 1 ELSE 0]
                /\ promise' = started
                /\ inflight' = {c \in Checks : started[c].state = "pending"}
                /\ phase' = s.phase
                /\ returned' = s.returned
    /\ UNCHANGED <<opt, cached, cachedBefore, retry, ulog>>
    /\ UNCHANGED notBansVars

\* resultsFromAutobot resolves with the response data (line 240)
PrimaryResolves ==
    /\ primary = "pending"
    /\ \E res \in Responses : AfterPrimary("ok", res)

\* resultsFromAutobot rejects (line 243)
PrimaryRejects ==
    /\ primary = "pending"
    /\ AfterPrimary("failed", NoResponse)

\* the untrusted-list request of the first attempt or of the retry is answered
UntrustedResponse ==
    /\ phase # "none"
    /\ \E attempt \in {"first", "retry"}, outcome \in UntrustedOutcomes :
        LET req == IF attempt = "first" THEN "untrusted" ELSE "untrustedRetry"
            h == isListedUntrustedHandler(attempt, outcome, cached)
            again == RetriesUntrusted(attempt, outcome)
            ps == IF attempt = "first" /\ h.resolves
                  THEN [promise EXCEPT !["untrusted"] = Resolved(h.value)]
                  ELSE promise
        IN  /\ req \in inflight
            /\ inflight' = (inflight \ {req}) \cup (IF again THEN {"untrustedRetry"} ELSE {})
            /\ ulog' = Append(ulog, [attempt |-> attempt, outcome |-> outcome])
            /\ cached' = h.cached
            /\ promise' = ps
            /\ retry' = IF again THEN Pending
                        ELSE IF attempt = "retry" /\ h.resolves THEN Resolved(h.value)
                        ELSE retry
            /\ invoked' = IF again THEN [invoked EXCEPT !["untrusted"] = @ + 1] ELSE invoked
            /\ Settle(ps, h.cached)
            /\ UNCHANGED <<opt, cachedBefore, primary, response>>
            /\ UNCHANGED notBansVars

\* a handler of one of the three other requests runs
Answered(req, h) ==
    LET ps == IF h.resolves THEN [promise EXCEPT ![req] = Resolved(h.value)] ELSE promise
    IN  /\ req \in inflight
        /\ inflight' = inflight \ {req}
        /\ cached' = h.cached
        /\ promise' = ps
        /\ Settle(ps, h.cached)
        /\ UNCHANGED <<opt, cachedBefore, primary, response, invoked, retry, ulog>>
        /\ UNCHANGED notBansVars

\* the marketplace.tf request is answered
MptfResponse ==
    /\ "mptf" \in inflight
    /\ \E data \in MptfResponses : Answered("mptf", isMptfBannedHandler(data, cached))

\* the steamrep.com request is answered
SteamRepResponse ==
    /\ "steamrep" \in inflight
    /\ \E data \in SteamRepResponses :
          Answered("steamrep", isSteamRepMarkedHandler(data, cached))

\* the backpack.tf request is answered
BptfResponse ==
    /\ "bptf" \in inflight
    /\ \E data \in BptfResponses : Answered("bptf", isBptfBannedHandler(data, cached))

NextBans ==
    \/ IsBannedCall
    \/ PrimaryResolves
    \/ PrimaryRejects
    \/ UntrustedResponse
    \/ MptfResponse
    \/ SteamRepResponse
    \/ BptfResponse

-----------------------------------------------------------------------------
(* isSteamRepMarked alone: the handler applied to one answer *)

\* the cached flags a Bans instance can hold when a request is answered:
\* isBptfBanned and isBptfSteamRepBanned are written together (lines 271-272)
CachedStates ==
    {c \in [isBptfBanned : {"null", "undefined", "true", "false"},
            isBptfSteamRepBanned : {"null", "true", "false"},
            isSteamRepBanned : {"null", "true", "false"},
            isCommunityBanned : {"null", "true"},
            isMptfBanned : {"null", "true", "false"}] :
        /\ (c.isBptfBanned = "null") <=> (c.isBptfSteamRepBanned = "null")
        /\ c.isBptfBanned = "undefined" => c.isBptfSteamRepBanned = "false"}

InitSrVars ==
    /\ srData \in SteamRepResponses
    /\ srCached \in CachedStates
    /\ srPc = "pending"
    /\ srOut = Handled(FALSE, Undefined, srCached)

\* the steamrep.com request of isSteamRepMarked is answered (lines 296-316)
SteamRepAnswered ==
    /\ srPc = "pending"
    /\ srOut' = isSteamRepMarkedHandler(srData, srCached)
    /\ srPc' = "done"
    /\ UNCHANGED <<srData, srCached>>
    /\ UNCHANGED notSrVars

-----------------------------------------------------------------------------
(* PricesTfSocketManager *)

\* new ReconnectingWebSocket(..., {startClosed: true})   (lines 46-51)
NewSocket ==
    [state |-> "closed", opener |-> "none", shutCloses |-> 0, outside |-> FALSE]

\* ReconnectingWebSocket.close() on connection c
close(cs, c) == [cs EXCEPT ![c].state = "closed"]

\* ReconnectingWebSocket.reconnect() on connection c, called by `by`
reconnect(cs, c, by) == [cs EXCEPT ![c].state = "connecting", ![c].opener = by]

\* mutant of shutDown: close() without the `if (this.ws)` test
shutDownUnguarded(w, cs) ==
    IF w # 0
    THEN [ws |-> 0,
          conns |-> [close(cs, w) EXCEPT ![w].shutCloses = @ + 1],
          threw |-> FALSE]
    ELSE [ws |-> w, conns |-> cs, threw |-> TRUE]

\* shutDown()   (lines 78-83)
shutDown(w, cs) ==
    IF w # 0
    THEN [ws |-> 0,
          conns |-> [close(cs, w) EXCEPT ![w].shutCloses = @ + 1],
          threw |-> FALSE]
    ELSE [ws |-> w, conns |-> cs, threw |-> FALSE]

\* mutant of initTeardown: init() keeps the previous connection as it is
initNoTeardown(w, cs) == [ws |-> w, conns |-> cs, threw |-> FALSE]

\* init() begins with this.shutDown()   (line 45)
initTeardown(w, cs) == shutDown(w, cs)

\* what the 'error' listener does when it runs (lines 56-68): the steps it
\* takes, in order, on the handle the manager holds at that moment
ErrorListener(c, is401, w) ==
    IF w = 0
    THEN [conn |-> c, is401 |-> is401, refresh |-> "none", target |-> 0,
          trace |-> <<"throw">>]
    ELSE [conn |-> c, is401 |-> is401,
          refresh |-> IF is401 THEN "pending" ELSE "none", target |-> 0,
          trace |-> IF is401 THEN <<"close", "setupToken">> ELSE <<"close", "log">>]

\* .then(() => this.ws.reconnect())   (line 60); when this.ws is undefined the
\* TypeError rejects the chain, the catch callback runs and throws it again
\* at line 62: the chain ends rejected with nobody listening
ThenCallback(ev, w) ==
    IF w = 0
    THEN [ev EXCEPT !.refresh = "ok", !.trace = @ \o <<"settled", "throw", "throw">>]
    ELSE [ev EXCEPT !.refresh = "ok", !.target = w,
                    !.trace = @ \o <<"settled", "reconnect">>]

\* .catch(e => {this.ws.reconnect(); this.socketUnauthorized(); logger.error})
\* (lines 61-65); socketUnauthorized() only builds a closure
CatchCallback(ev, w) ==
    IF w = 0
    THEN [ev EXCEPT !.refresh = "failed", !.trace = @ \o <<"settled", "throw">>]
    ELSE [ev EXCEPT !.refresh = "failed", !.target = w,
                    !.trace = @ \o <<"settled", "reconnect", "log">>]

InitSockVars ==
    /\ ws = 0
    /\ conns = <<>>
    /\ events = <<>>
    /\ callerThrew = FALSE
    /\ streak = 0
    /\ quiet = FALSE

\* init()   (lines 44-72)
InitCall ==
    /\ Len(conns) < MaxConns
    /\ LET t == initTeardown(ws, conns)
       IN  IF t.threw
           THEN /\ callerThrew' = TRUE
                /\ UNCHANGED <<ws, conns>>
           ELSE /\ conns' = Append(t.conns, NewSocket)
                /\ ws' = Len(conns) + 1
                /\ UNCHANGED callerThrew
    /\ streak' = 0
    /\ quiet' = FALSE
    /\ UNCHANGED events
    /\ UNCHANGED notSockVars

\* connect()   (lines 74-76)
ConnectCall ==
    /\ streak' = 0
    /\ IF ws = 0
       THEN callerThrew' = TRUE /\ UNCHANGED conns
       ELSE conns' = reconnect(conns, ws, "connect") /\ UNCHANGED callerThrew
    /\ quiet' = FALSE
    /\ UNCHANGED <<ws, events>>
    /\ UNCHANGED notSockVars

\* shutDown()   (lines 78-83)
ShutDownCall ==
    /\ streak' = (IF streak = 0 THEN 1 ELSE 2)
    /\ LET t == shutDown(ws, conns)
       IN  /\ ws' = t.ws
           /\ conns' = t.conns
           /\ callerThrew' = (callerThrew \/ t.threw)
    /\ UNCHANGED <<events, quiet>>
    /\ UNCHANGED notSockVars

\* on(name, handler)   (lines 85-87)
OnCall ==
    /\ streak' = 0
    /\ IF ws = 0
       THEN callerThrew' = TRUE /\ UNCHANGED conns
       ELSE conns' = [conns EXCEPT ![ws].outside = TRUE] /\ UNCHANGED callerThrew
    /\ UNCHANGED <<ws, events, quiet>>
    /\ UNCHANGED notSockVars

\* a connection that is connecting or open emits 'error'; the listener of
\* lines 55-69 runs.  A connection that was closed emits nothing until it is
\* reconnected (reconnecting-websocket detaches from its socket on close()).
ErrorEvent ==
    /\ Len(events) < MaxEvents
    /\ \E c \in 1..Len(conns), is401 \in BOOLEAN :
          /\ conns[c].state \in {"connecting", "open"}
          /\ events' = Append(events, ErrorListener(c, is401, ws))
          /\ conns' = (IF ws = 0 THEN conns ELSE close(conns, ws))
          /\ quiet' = (quiet \/ ~is401)
    /\ streak' = 0
    /\ UNCHANGED <<ws, callerThrew>>
    /\ UNCHANGED notSockVars

\* api.setupToken() of an earlier 401 event resolves   (line 60)
RefreshResolves ==
    /\ \E e \in 1..Len(events) :
          /\ events[e].refresh = "pending"
          /\ events' = [events EXCEPT ![e] = ThenCallback(events[e], ws)]
    /\ conns' = (IF ws = 0 THEN conns ELSE reconnect(conns, ws, "handler"))
    /\ streak' = 0
    /\ UNCHANGED <<ws, callerThrew, quiet>>
    /\ UNCHANGED notSockVars

\* api.setupToken() of an earlier 401 event rejects   (lines 61-65)
RefreshRejects ==
    /\ \E e \in 1..Len(events) :
          /\ events[e].refresh = "pending"
          /\ events' = [events EXCEPT ![e] = CatchCallback(events[e], ws)]
    /\ conns' = (IF ws = 0 THEN conns ELSE reconnect(conns, ws, "handler"))
    /\ streak' = 0
    /\ UNCHANGED <<ws, callerThrew, quiet>>
    /\ UNCHANGED notSockVars

\* a connecting socket reaches the server: 'open'   (line 53)
SocketOpens ==
    /\ \E c \in 1..Len(conns) :
          /\ conns[c].state = "connecting"
          /\ conns' = [conns EXCEPT ![c].state = "open"]
    /\ streak' = 0
    /\ UNCHANGED <<ws, events, callerThrew, quiet>>
    /\ UNCHANGED notSockVars

NextSocket ==
    \/ InitCall
    \/ ConnectCall
    \/ ShutDownCall
    \/ OnCall
    \/ ErrorEvent
    \/ RefreshResolves
    \/ RefreshRejects
    \/ SocketOpens

-----------------------------------------------------------------------------
(* Specifications *)

\* the components a specification does not exercise stay as constructed
IdleDiff ==
    /\ dict = NoDict
    /\ diffPc = "ready"
    /\ diffResult = NullResult

IdleBans ==
    /\ opt = [checkMptfBanned |-> FALSE, mptfApiKey |-> "", bptfApiKey |-> ""]
    /\ InitBansVars

IdleSr ==
    /\ srData = [kind |-> "error", hasReputation |-> FALSE, hasSummary |-> FALSE,
                 summary |-> NoSummary, full |-> "undefined"]
    /\ srCached = NoCache
    /\ srPc = "pending"
    /\ srOut = Handled(FALSE, Undefined, NoCache)

IdleSock == InitSockVars

InitDiff == InitDiffVars /\ IdleBans /\ IdleSr /\ IdleSock

NextDiff == GetDiffCall

SpecDiff == InitDiff /\ [][NextDiff]_vars

InitBans ==
    /\ opt \in Options
    /\ InitBansVars
    /\ IdleDiff
    /\ IdleSr
    /\ IdleSock

SpecBans == InitBans /\ [][NextBans]_vars

InitSteamRep == InitSrVars /\ IdleDiff /\ IdleBans /\ IdleSock

NextSteamRep == SteamRepAnswered

SpecSteamRep == InitSteamRep /\ [][NextSteamRep]_vars

InitSocket == InitSockVars /\ IdleDiff /\ IdleBans /\ IdleSr

SpecSocket == InitSocket /\ [][NextSocket]_vars

-----------------------------------------------------------------------------
(* Claims about Bans.isBanned *)

\* the isBanned() call has resolved or rejected
Settled == phase \in {"resolved", "rejected"}

\* the promise of a fallback check resolved with a result (not undefined)
Produced(c) == promise[c].state = "resolved" /\ promise[c].value.def

\* the promise of a fallback check settled without a result
Failed(c) ==
    \/ promise[c].state = "rejected"
    \/ promise[c].state = "resolved" /\ ~promise[c].value.def

\* every request of the call has been answered after the primary call failed
FallbacksOver == primary = "failed" /\ inflight = {}

\* C1: when the primary call succeeds, none of the four fallback checks is
\* invoked during that isBanned() call.
C1_NoFallbackOnSuccess ==
    primary = "ok" =>
        /\ \A c \in Checks : invoked[c] = 0 /\ promise[c].state = "none"
        /\ inflight = {}
        /\ retry.state = "none"
        /\ phase = "resolved"

\* C1 witness: a call answered by the primary service on an instance whose
\* earlier call did run the fallback checks.
C1_Witness ==
    /\ primary = "ok" /\ phase = "resolved"
    /\ cached.isCommunityBanned = "true"
    /\ \A c \in Checks : invoked[c] = 0

\* C2 (as claimed): after a failed primary call, when at least one fallback
\* check resolved to a result, isBanned() resolves with the OR of isBanned
\* over the resolved results, in every configuration.
C2_OrOfResolved ==
    (FallbacksOver /\ Settled /\ \E c \in Checks : Produced(c)) =>
        /\ phase = "resolved"
        /\ returned.isBanned =
              ToJs(\E c \in Checks : Produced(c) /\ Truthy(promise[c].value.isBanned))

\* C3 (as claimed): deny by default: primary failed, no fallback check produced
\* a result and all five cached flags are null, then isBanned is true.
C3_DenyByDefault ==
    (FallbacksOver /\ Settled /\ (\A c \in Checks : Failed(c))
       /\ cachedBefore = NoCache /\ cached = NoCache) =>
        /\ phase = "resolved"
        /\ returned.isBanned = "true"

\* all four fallback promises resolved undefined after a failed primary call
AllResolvedUndefined ==
    /\ primary = "failed"
    /\ \A c \in Checks : promise[c].state = "resolved" /\ ~promise[c].value.def

AllFailed == primary = "failed" /\ \A c \in Checks : Failed(c)

C6_RejectsOnlyOnTotalFailure ==
    (phase = "rejected" /\ inflight = {}) =>
        /\ primary = "failed"
        /\ \A c \in Checks : ~Produced(c)
        /\ CacheSaysBanned(opt, cachedBefore)

\* no request of isListedUntrusted is waiting for its answer
UntrustedAnswered == Len(ulog) >= 1 /\ inflight \cap {"untrusted", "untrustedRetry"} = {}

\* C7 (as claimed): in isListedUntrusted an aborted first request is followed by
\* exactly one retry, a retry that is aborted too makes the promise returned
\* to the caller resolve with undefined, that promise always settles by
\* resolving, and at most two requests are issued.
C7_RetryOnceThenUndefined ==
    /\ Len(ulog) <= 2
    /\ promise["untrusted"].state # "rejected"
    /\ (UntrustedAnswered /\ Aborted(ulog[1].outcome)) => Len(ulog) = 2
    /\ (Len(ulog) = 2 /\ Aborted(ulog[2].outcome)) =>
          promise["untrusted"] = Resolved(Undefined)
    /\ UntrustedAnswered => promise["untrusted"].state = "resolved"

\* C8: when the primary call succeeds, isBanned is the response's isBanned if
\* checkMptfBanned is on and its isBannedExcludeMptf otherwise, and contents has
\* an entry for a site exactly when the site's entry is not 'Error' and has
\* isBanned true, the value being the site's content.
C8_PrimaryResult ==
    primary = "ok" =>
        LET banned == {s \in Sites : /\ response.contents[s] # ErrorEntry
                                     /\ response.contents[s].kind = "result"
                                     /\ response.contents[s].isBanned = "true"}
        IN  /\ phase = "resolved"
            /\ returned.isBanned =
                  ToJs(IF opt.checkMptfBanned THEN response.isBanned
                       ELSE response.isBannedExcludeMptf)
            /\ returned.hasContents
            /\ DOMAIN returned.contents = banned
            /\ \A s \in banned : returned.contents[s] = response.contents[s].content

\* C8 witness: a successful primary call whose two isBanned fields differ and
\* whose contents hold the sentinel, null, a banned and a clean site.
C8_Witness ==
    /\ primary = "ok" /\ phase = "resolved"
    /\ response.isBanned # response.isBannedExcludeMptf
    /\ response.contents["TF2Autobot"] = ErrorEntry
    /\ response.contents["Marketplace.tf"] = NullEntry
    /\ response.contents["Backpack.tf"].isBanned = "true"
    /\ response.contents["Steamrep.com"].isBanned = "false"
    /\ DOMAIN returned.contents = {"Backpack.tf"}

\* isSteamRepMarked took its failure path: it resolved undefined or with a
\* result that carries no content (line 312)
SteamRepFellBack ==
    /\ promise["steamrep"].state = "resolved"
    /\ (~promise["steamrep"].value.def \/ promise["steamrep"].value.content = "undefined")

\* what the failure path of isSteamRepMarked resolves with when it sees the
\* cached flags as they were before any check of this call wrote them
SteamRepFallbackBefore ==
    IF cachedBefore.isBptfSteamRepBanned # "null"
    THEN SiteResult(cachedBefore.isBptfSteamRepBanned, "undefined")
    ELSE Undefined

\* C13 (as claimed): no check's outcome depends on a cached flag that another
\* check of the same isBanned() call has written meanwhile, so the call's
\* result is the same for every completion order: a failed steamrep check
\* resolves as it would have before the backpack.tf check wrote its flag, and
\* the merged result is the one computed from that outcome.
C13_OrderIndependent ==
    SteamRepFellBack =>
        /\ promise["steamrep"].value = SteamRepFallbackBefore
        /\ (phase = "resolved" /\ \A c \in Checks : promise[c].state = "resolved") =>
              returned = finalize(opt, [c \in Checks |->
                                          IF c = "steamrep" THEN SteamRepFallbackBefore
                                          ELSE promise[c].value])

\* C19 (as claimed): once every HTTP request of an isBanned() call has been
\* answered (success, failure or abort), the call has settled.
C19_SettlesWhenAnswered ==
    (phase # "none" /\ inflight = {}) => Settled

-----------------------------------------------------------------------------
(* Claims about isSteamRepMarked *)

\* the summary of the answer contains 'scammer' in any letter case
SummaryContainsScammer(data) ==
    /\ data.hasReputation /\ data.hasSummary
    /\ \E i \in 1..Len(data.summary) :
          /\ i + Len(Scammer) - 1 <= Len(data.summary)
          /\ \A j \in 1..Len(Scammer) : LowerChar(data.summary[i + j - 1]) = Scammer[j]

\* C14 (as claimed): when the steamrep request succeeds, isSteamRepMarked
\* resolves with isBanned = true iff the reputation summary contains
\* 'scammer' (case-insensitive), false in particular when there is no such
\* summary, and _isSteamRepBanned is set to the same value.
C14_BannedIffScammer ==
    (srPc = "done" /\ srData.kind = "ok") =>
        /\ srOut.resolves /\ srOut.value.def
        /\ srOut.value.isBanned = ToJs(SummaryContainsScammer(srData))
        /\ srOut.cached.isSteamRepBanned = srOut.value.isBanned

\* C15: when the steamrep request fails, isSteamRepMarked resolves with
\* {isBanned: _isBptfSteamRepBanned} if that flag is not null and with
\* undefined otherwise; it never rejects and writes no cached flag.
C15_FailureFallsBackToBptfFlag ==
    (srPc = "done" /\ srData.kind = "error") =>
        /\ srOut.resolves
        /\ srOut.value = IF srCached.isBptfSteamRepBanned # "null"
                         THEN SiteResult(srCached.isBptfSteamRepBanned, "undefined")
                         ELSE Undefined
        /\ srOut.cached = srCached

\* C15 witness: the request failed on an instance whose backpack.tf check had
\* cached steamrep_scammer, and isSteamRepMarked resolved banned from it.
C15_Witness ==
    /\ srPc = "done" /\ srData.kind = "error"
    /\ srCached.isBptfSteamRepBanned = "true"
    /\ srCached.isSteamRepBanned = "false"
    /\ srOut.value = SiteResult("true", "undefined")

-----------------------------------------------------------------------------
(* Claims about PricesTfSocketManager *)

\* how often step x occurs in the steps an error event has taken
Count(tr, x) == Cardinality({i \in 1..Len(tr) : tr[i] = x})

\* reconnect() calls the manager made by itself, over all error events
ManagerReconnects(evs) ==
    Cardinality({p \in (1..Len(evs)) \X (1..4) :
                    p[2] <= Len(evs[p[1]].trace) /\ evs[p[1]].trace[p[2]] = "reconnect"})

\* C11: shutDown() in any state does not throw, closes the connection it
\* holds once (and no connection twice), and leaves the manager with no
\* handle; a second consecutive shutDown() changes nothing.
C11_ShutDownIdempotent ==
    [][streak' >= 1 =>
          /\ ws' = 0
          /\ callerThrew' = callerThrew
          /\ events' = events
          /\ IF ws # 0
             THEN conns' = [conns EXCEPT ![ws].state = "closed",
                                         ![ws].shutCloses = conns[ws].shutCloses + 1]
             ELSE conns' = conns
          /\ \A c \in 1..Len(conns') : conns'[c].shutCloses <= 1
          /\ streak' = 2 => (ws' = ws /\ conns' = conns)]_vars

\* C11 witness: shutDown() was called twice in a row on a manager that held
\* a connection which had been connected.
C11_Witness ==
    /\ streak = 2
    /\ ws = 0
    /\ \E c \in 1..Len(conns) : conns[c].shutCloses = 1 /\ conns[c].opener = "connect"

\* C12 (as claimed): each 401 error event closes the connection, then calls
\* setupToken() exactly once, then, once that refresh has settled, issues a
\* reconnect; an error event with another message calls no setupToken().
C12_CloseRefreshReconnect ==
    \A e \in 1..Len(events) :
        /\ events[e].is401 =>
              /\ Count(events[e].trace, "setupToken") = 1
              /\ SubSeq(events[e].trace, 1, 2) = <<"close", "setupToken">>
              /\ events[e].refresh = "pending" => Count(events[e].trace, "reconnect") = 0
              /\ events[e].refresh \in {"ok", "failed"} =>
                    SubSeq(events[e].trace, 1, 4) =
                        <<"close", "setupToken", "settled", "reconnect">>
        /\ ~events[e].is401 => Count(events[e].trace, "setupToken") = 0

\* C16 (as claimed): when setupToken() fails the manager still issues exactly
\* one reconnect for that event and logs the refresh error; when it succeeds
\* exactly one reconnect is issued as well.
C16_OneReconnectEitherWay ==
    \A e \in 1..Len(events) :
        /\ events[e].refresh = "failed" =>
              /\ Count(events[e].trace, "reconnect") = 1
              /\ Count(events[e].trace, "log") = 1
        /\ events[e].refresh = "ok" => Count(events[e].trace, "reconnect") = 1

\* C17 (as claimed): no error listener or refresh continuation dereferences
\* an absent handle, and none reconnects a connection other than the one
\* whose error event started it.
C17_NoUnhandledNoStale ==
    \A e \in 1..Len(events) :
        /\ Count(events[e].trace, "throw") = 0
        /\ events[e].target # 0 => events[e].target = events[e].conn

\* C18: the manager holds at most one handle, every connection it does not
\* hold is closed, and a connection nobody has reconnected yet is closed.
C18_OneLiveConnection ==
    /\ ws \in 0..Len(conns)
    /\ \A c \in 1..Len(conns) :
          /\ c # ws => conns[c].state = "closed"
          /\ conns[c].opener = "none" => conns[c].state = "closed"

\* C18 witness: a second init() replaced a connection that had been
\* connected; the old one is closed, the new one was opened by connect().
C18_Witness ==
    /\ Len(conns) = 2
    /\ ws = 2
    /\ conns[1].opener = "connect" /\ conns[1].state = "closed"
    /\ conns[2].opener = "connect" /\ conns[2].state = "open"

\* C20 (as claimed): the listener answers a non-401 error event by closing
\* and logging only, and from then on the manager calls no reconnect by
\* itself until connect() or init() is called.
C20_NoReconnectAfterOtherError ==
    [][/\ \A e \in 1..Len(events') :
             ~events'[e].is401 => events'[e].trace = <<"close", "log">>
       /\ quiet => ManagerReconnects(events') = ManagerReconnects(events)]_vars

-----------------------------------------------------------------------------
(* Claims about getDiff *)

\* quantity of sku on a side, a missing own key counted as 0
QtyOf(side, sku) == IF sku \in DOMAIN side.own THEN side.own[sku] ELSE 0

\* C9: for an offer with a 'dict' annotation, getDiff returns a mapping whose
\* keys are exactly the own keys of dict.our and dict.their together, each
\* mapped to their[k] - our[k] with a missing side counted as 0.
C9_DiffIsTheirMinusOur ==
    (diffPc = "done" /\ dict.present) =>
        /\ ~diffResult.isNull
        /\ DOMAIN diffResult.map = (DOMAIN dict.our.own) \cup (DOMAIN dict.their.own)
        /\ \A k \in DOMAIN diffResult.map :
              diffResult.map[k] = QtyOf(dict.their, k) - QtyOf(dict.our, k)

\* C9 witness: a diff was computed where one sku is on both sides, one side
\* inherits a key it does not own, and the result has a negative entry.
C9_Witness ==
    /\ diffPc = "done" /\ dict.present
    /\ (DOMAIN dict.our.own) \cap (DOMAIN dict.their.own) # {}
    /\ dict.our.inherited \ ((DOMAIN dict.our.own) \cup (DOMAIN dict.their.own)) # {}
    /\ \E k \in DOMAIN diffResult.map : diffResult.map[k] < 0

\* C10: getDiff returns null exactly when the offer has no 'dict' annotation.
C10_NullIffNoDict ==
    diffPc = "done" => (diffResult.isNull <=> ~dict.present)

\* C10 witness: getDiff was called on an offer without annotation
C10_Witness == diffPc = "done" /\ ~dict.present /\ diffResult.isNull

====
